---- MODULE Spec2Model ----
(***************************************************************************)
(* Budget aggregation and AI-assisted cost estimation of wanderplan        *)
(* (src/budget.py, with the store of src/database.py, the trip handlers of *)
(* src/trips.py and the gateway of src/ollama_service.py).                 *)
(*                                                                         *)
(* Python values are tagged records: [t |-> "none"], [t |-> "num", v],     *)
(* [t |-> "str", v] (v a sequence of one-character strings),               *)
(* [t |-> "list"] (a non-empty list) and [t |-> "dict", v] (v a function   *)
(* from keys to Python values).  Numbers are integers counting            *)
(* thousandths of a currency unit, so that round(x, 2) has something to    *)
(* round; a percentage rounded to one decimal is an integer of tenths.     *)
(* Amounts are floats: a sum keeps Significand leading bits, rounding to   *)
(* even, so the order of the additions can show in the last place.         *)
(***************************************************************************)
EXTENDS Integers, Sequences, FiniteSets, TLC

VARIABLES trips, expenses, last, served, pending

vars == <<trips, expenses, last, served, pending>>

\* ---------------------------------------------------------------- bounds

\* Requests served in one behaviour.
MaxRequests == 4

\* Bits of a float's significand (53 in the build; small here, so that sums
\* of a few amounts reach the last place).
Significand == 12

\* ---------------------------------------------------------- Python values

PyNone == [t |-> "none"]
Num(n) == [t |-> "num", v |-> n]
Str(s) == [t |-> "str", v |-> s]
PyList == [t |-> "list"]
Dict(m) == [t |-> "dict", v |-> m]
EmptyDict == Dict(<<>>)

\* Python truth value: None, 0, "" and {} are false.
Truthy(x) ==
    CASE x.t = "none" -> FALSE
      [] x.t = "num"  -> x.v # 0
      [] x.t = "str"  -> x.v # <<>>
      [] x.t = "dict" -> DOMAIN x.v # {}
      [] OTHER        -> TRUE

\* a or b
Or(a, b) == IF Truthy(a) THEN a ELSE b

\* d.get(k, dflt) on a dict d
Get(d, k, dflt) == IF k \in DOMAIN d.v THEN d.v[k] ELSE dflt

Lower == <<"a","b","c","d","e","f","g","h","i","j","k","l","m",
           "n","o","p","q","r","s","t","u","v","w","x","y","z">>
UpperCase == <<"A","B","C","D","E","F","G","H","I","J","K","L","M",
               "N","O","P","Q","R","S","T","U","V","W","X","Y","Z">>

UpperChar(c) ==
    IF \E i \in DOMAIN Lower : Lower[i] = c
    THEN UpperCase[CHOOSE i \in DOMAIN Lower : Lower[i] = c]
    ELSE c

\* str.upper()
Upper(s) == [i \in DOMAIN s |-> UpperChar(s[i])]

USD == Str(<<"U","S","D">>)

\* The integer nearest to a / b (b # 0), ties to the even one: round().
RoundNearest(a, b) ==
    LET n == IF b < 0 THEN 0 - a ELSE a
        d == IF b < 0 THEN 0 - b ELSE b
        q == n \div d
        r == n % d
    IN  IF 2 * r < d THEN q
        ELSE IF 2 * r > d THEN q + 1
        ELSE IF q % 2 = 0 THEN q ELSE q + 1

\* round(x, 2) of x thousandths, in thousandths
Round2(x) == RoundNearest(x, 10) * 10

\* Pct with the quotient cut off instead of rounded.
PctTruncated(a, b) == (a * 1000) \div b

\* round(a / b * 100, 1), in tenths of a percent
Pct(a, b) == RoundNearest(a * 1000, b)

\* The spacing of the floats around n >= 0.
RECURSIVE Ulp(_)
Ulp(n) == IF n < 2 ^ Significand THEN 1 ELSE 2 * Ulp(n \div 2)

\* The float nearest to n, ties to even.
FRound(n) ==
    IF n < 0 THEN 0 - RoundNearest(0 - n, Ulp(0 - n)) * Ulp(0 - n)
    ELSE RoundNearest(n, Ulp(n)) * Ulp(n)

\* a + b in floating point
FAdd(a, b) == FRound(a + b)

\* The exact sum of f over S, for stating what a sum should be.
RECURSIVE SumOver(_, _)
SumOver(f, S) ==
    IF S = {} THEN 0
    ELSE LET k == CHOOSE k \in S : TRUE IN f[k] + SumOver(f, S \ {k})

\* ------------------------------------------------------------ the store

EXPENSE_CATEGORIES ==
    <<"accommodation", "food", "transport", "activities", "shopping", "other">>

Categories == {EXPENSE_CATEGORIES[i] : i \in DOMAIN EXPENSE_CATEGORIES}

\* A new row of a table whose INTEGER PRIMARY KEY is not AUTOINCREMENT.
NextId(ids) ==
    IF ids = {} THEN 1
    ELSE (CHOOSE m \in ids : \A i \in ids : i <= m) + 1

\* Trip(...) as create_trip builds it from a body without dates: the budget
\* columns take their defaults.
Trip ==
    [budget_total |-> PyNone, budget_currency |-> USD, budget_estimates |-> PyNone,
     start_date |-> PyNone, end_date |-> PyNone]

\* The elements of a set of ids, ascending.
RECURSIVE Ascending(_)
Ascending(S) ==
    IF S = {} THEN <<>>
    ELSE LET m == CHOOSE m \in S : \A i \in S : m <= i
         IN  <<m>> \o Ascending(S \ {m})

\* The elements of a set of expense ids, the latest created first.
RECURSIVE LatestFirst(_, _)
LatestFirst(exps, S) ==
    IF S = {} THEN <<>>
    ELSE LET m == CHOOSE m \in S :
                     \A i \in S : exps[i].created_at <= exps[m].created_at
         IN  <<m>> \o LatestFirst(exps, S \ {m})

\* The rows of db.query(Expense).filter(Expense.trip_id == trip_id)
ExpensesOf(exps, trip_id) == {e \in DOMAIN exps : exps[e].trip_id = trip_id}

\* ....all(): without ORDER BY the table is scanned in rowid order.
QueryAll(exps, trip_id) == Ascending(ExpensesOf(exps, trip_id))

\* ....order_by(Expense.created_at.desc()).all()
QueryLatestFirst(exps, trip_id) == LatestFirst(exps, ExpensesOf(exps, trip_id))

\* ------------------------------------------------------- compute_summary

Raised == [raised |-> TRUE]

\* by_category[cat] after `for e in expenses: by_category[e.category] +=
\* e.amount` over the rows in their order.
RECURSIVE SumRows(_, _, _)
SumRows(exps, rows, cat) ==
    IF rows = <<>> THEN 0
    ELSE LET e == rows[Len(rows)]
             before == SumRows(exps, SubSeq(rows, 1, Len(rows) - 1), cat)
         IN  IF exps[e].category = cat THEN FAdd(before, exps[e].amount)
             ELSE before

by_category(exps, rows) ==
    [c \in {exps[rows[i]].category : i \in DOMAIN rows} |-> SumRows(exps, rows, c)]

\* The keys of by_category in insertion order: each category where the rows
\* first have it.
RECURSIVE Keys(_, _)
Keys(exps, rows) ==
    IF rows = <<>> THEN <<>>
    ELSE LET before == Keys(exps, SubSeq(rows, 1, Len(rows) - 1))
             c == exps[rows[Len(rows)]].category
         IN  IF \E i \in DOMAIN before : before[i] = c THEN before
             ELSE Append(before, c)

\* sum(by_category.values())
RECURSIVE SumValues(_, _)
SumValues(byCat, keys) ==
    IF keys = <<>> THEN 0
    ELSE FAdd(SumValues(byCat, SubSeq(keys, 1, Len(keys) - 1)),
              byCat[keys[Len(keys)]])

\* total_spent before it is rounded for the summary
TotalSpent(exps, rows) == SumValues(by_category(exps, rows), Keys(exps, rows))

\* estimates.get(cat, {}).get("amount", 0.0): Raised when either receiver is
\* not a dict (AttributeError).
Estimated(estimates, cat) ==
    IF estimates.t # "dict" THEN Raised
    ELSE LET entry == Get(estimates, cat, EmptyDict)
         IN  IF entry.t # "dict" THEN Raised
             ELSE Get(entry, "amount", Num(0))

\* The loop body raises for cat: the estimate lookup raises, or spent is
\* divided by a truthy value that is no number (TypeError).
CategoryRaises(estimates, cat) ==
    LET estimated == Estimated(estimates, cat)
    IN  \/ estimated = Raised
        \/ Truthy(estimated) /\ estimated.t # "num"

\* One element of `categories`, when the loop body does not raise.
CategoryEntry(trip, byCat, estimates, cat) ==
    LET spent == IF cat \in DOMAIN byCat THEN byCat[cat] ELSE 0
        estimated == Estimated(estimates, cat)
    IN  [category |-> cat,
         spent |-> spent,
         estimated |-> estimated,
         pct_of_budget |->
             IF Truthy(trip.budget_total)
             THEN Num(Pct(spent, trip.budget_total.v)) ELSE PyNone,
         pct_of_estimate |->
             IF Truthy(estimated)
             THEN Num(Pct(spent, estimated.v)) ELSE PyNone]

\* compute_summary raises: its loop does, for some category.
SummaryRaises(trip) ==
    \E i \in DOMAIN EXPENSE_CATEGORIES :
        CategoryRaises(Or(trip.budget_estimates, EmptyDict), EXPENSE_CATEGORIES[i])

compute_summary(trip, exps, rows) ==
    LET currency == Or(trip.budget_currency, USD)
        byCat == by_category(exps, rows)
        total_spent == TotalSpent(exps, rows)
        estimates == Or(trip.budget_estimates, EmptyDict)
    IN  IF SummaryRaises(trip) THEN Raised
        ELSE [raised |-> FALSE,
              budget_total |-> trip.budget_total,
              budget_currency |-> currency,
              total_spent |-> Round2(total_spent),
              remaining |->
                  IF Truthy(trip.budget_total)
                  THEN Num(Round2(FAdd(trip.budget_total.v, 0 - total_spent)))
                  ELSE PyNone,
              pct_used |->
                  IF Truthy(trip.budget_total)
                  THEN Num(Pct(total_spent, trip.budget_total.v))
                  ELSE PyNone,
              categories |->
                  [i \in DOMAIN EXPENSE_CATEGORIES |->
                      CategoryEntry(trip, byCat, estimates, EXPENSE_CATEGORIES[i])],
              estimates |-> estimates]

\* The summary in the response of a mutating handler: compute_summary(trip,
\* expenses) after db.commit(), on the trip row as stored and the expenses
\* from .all().  A handler that re-reads the trip gets None when the row is
\* absent, and compute_summary(None, ...) raises at trip.budget_currency.
ReturnedSummary(trs, exps, trip_id) ==
    IF trip_id \notin DOMAIN trs THEN Raised
    ELSE compute_summary(trs[trip_id], exps, QueryAll(exps, trip_id))

\* The status of a handler that ends by returning compute_summary(...): an
\* exception escaping the handler is answered 500.
SummaryStatus(trs, exps, trip_id) ==
    IF trip_id \notin DOMAIN trs THEN 500
    ELSE IF SummaryRaises(trs[trip_id]) THEN 500 ELSE 200

\* ------------------------------------------------------------- requests

\* The fields a request body supplies (those that are not None).
Supplied(data) ==
    IF data = PyNone THEN {} ELSE {f \in DOMAIN data : data[f] # PyNone}

\* The last request served: the handler, the ids of its path, the fields its
\* body supplied, the status it was answered with, and the duration an
\* estimate request put in its prompt.
Response(op, trip_id, expense_id, req, status) ==
    [op |-> op, tid |-> trip_id, eid |-> expense_id, fields |-> Supplied(req),
     status |-> status, duration |-> PyNone]

NoRequest == Response("none", 0, 0, PyNone, 0)

\* The server takes the next request.
Accept == served < MaxRequests /\ served' = served + 1

\* A handler that runs from its first line to its response with no await in
\* between leaves the requests that are suspended as they are.
Sync == Accept /\ UNCHANGED pending

\* -------------------------------------------- trips.py: create, delete

create_trip ==
    /\ Sync
    /\ LET id == NextId(DOMAIN trips)
       IN  /\ trips' = [t \in DOMAIN trips \cup {id} |->
                           IF t = id THEN Trip ELSE trips[t]]
           /\ last' = Response("create_trip", id, 0, PyNone, 200)
    /\ UNCHANGED expenses

\* CascadeDelete leaving the trip's expenses in the table.
CascadeDeleteNone(exps, trip_id) == exps

\* The expenses table after db.delete(trip): cascade="all, delete" on
\* Trip.expenses deletes the rows of trip.expenses with it.
CascadeDelete(exps, trip_id) ==
    [e \in DOMAIN exps \ ExpensesOf(exps, trip_id) |-> exps[e]]

delete_trip(trip_id) ==
    /\ Sync
    /\ IF trip_id \notin DOMAIN trips
       THEN /\ last' = Response("delete_trip", trip_id, 0, PyNone, 404)
            /\ UNCHANGED <<trips, expenses>>
       ELSE /\ trips' = [t \in DOMAIN trips \ {trip_id} |-> trips[t]]
            /\ expenses' = CascadeDelete(expenses, trip_id)
            /\ last' = Response("delete_trip", trip_id, 0, PyNone, 200)

\* ------------------------------------------------------------ get_budget

get_budget(trip_id) ==
    /\ Sync
    /\ last' = Response("get_budget", trip_id, 0, PyNone,
                        IF trip_id \notin DOMAIN trips THEN 404
                        ELSE SummaryStatus(trips, expenses, trip_id))
    /\ UNCHANGED <<trips, expenses>>

\* ------------------------------------------------ update_budget_settings

\* ApplyBudgetUpdate assigning budget_total whether or not it was supplied.
ApplyBudgetUpdateTotalAlways(trip, data) ==
    [trip EXCEPT
        !.budget_total = data.budget_total,
        !.budget_currency =
            IF data.budget_currency # PyNone
            THEN Str(Upper(data.budget_currency.v)) ELSE @]

\* if data.budget_total is not None: ...; if data.budget_currency is not None: ...
ApplyBudgetUpdate(trip, data) ==
    [trip EXCEPT
        !.budget_total =
            IF data.budget_total # PyNone THEN data.budget_total ELSE @,
        !.budget_currency =
            IF data.budget_currency # PyNone
            THEN Str(Upper(data.budget_currency.v)) ELSE @]

update_budget_settings(trip_id, data) ==
    /\ Sync
    /\ IF trip_id \notin DOMAIN trips
       THEN /\ last' = Response("update_budget_settings", trip_id, 0, data, 404)
            /\ UNCHANGED <<trips, expenses>>
       ELSE /\ trips' = [trips EXCEPT ![trip_id] = ApplyBudgetUpdate(@, data)]
            /\ last' = Response("update_budget_settings", trip_id, 0, data,
                                SummaryStatus(trips', expenses, trip_id))
            /\ UNCHANGED expenses

\* -------------------------------------------------------- estimate_costs

\* What the upstream chat endpoint answers: no usable answer (a transport
\* error or a non-success status), or a message whose content is JSON text
\* for `value`, or text that is not JSON.
Failure == [ok |-> FALSE]
Json(value) == [ok |-> TRUE, json |-> TRUE, value |-> value]
Text(s) == [ok |-> TRUE, json |-> FALSE, text |-> s]

\* generate_structured: raises on failure; {"result": json.loads(content)},
\* and on JSONDecodeError {"result": content}.
generate_structured(upstream) ==
    IF ~upstream.ok THEN Raised
    ELSE IF upstream.json THEN [raised |-> FALSE, result |-> upstream.value]
    ELSE [raised |-> FALSE, result |-> Str(upstream.text)]

\* if not trip.budget_currency: trip.budget_currency = estimates.get("currency", "USD")
BootstrapCurrency(trip, estimates) ==
    IF Truthy(trip.budget_currency) THEN trip
    ELSE IF estimates.t # "dict" THEN Raised
    ELSE [trip EXCEPT !.budget_currency = Get(estimates, "currency", USD)]

\* if not trip.budget_total and estimates.get("total"): trip.budget_total = estimates["total"]
BootstrapTotal(trip, estimates) ==
    IF Truthy(trip.budget_total) THEN trip
    ELSE IF estimates.t # "dict" THEN Raised
    ELSE IF Truthy(Get(estimates, "total", PyNone))
         THEN [trip EXCEPT !.budget_total = estimates.v["total"]]
    ELSE trip

\* isinstance(estimates, str)
Unparseable(estimates) == estimates.t = "str"

\* Lines 178-184: the trip as the session holds it at db.commit(), or Raised
\* when an AttributeError ends the request before the commit.
SaveEstimates(trip, estimates) ==
    LET t1 == [trip EXCEPT !.budget_estimates = estimates]
        t2 == BootstrapCurrency(t1, estimates)
    IN  IF t2 = Raised THEN Raised ELSE BootstrapTotal(t2, estimates)

\* EstimateOutcome with the row written before the isinstance check.
EstimateOutcomeSaveFirst(trip, upstream) ==
    LET result == generate_structured(upstream)
    IN  IF result = Raised THEN [status |-> 502, trip |-> trip]
        ELSE IF Unparseable(result.result)
        THEN [status |-> 422,
              trip |-> [trip EXCEPT !.budget_estimates = result.result]]
        ELSE LET saved == SaveEstimates(trip, result.result)
             IN  IF saved = Raised THEN [status |-> 500, trip |-> trip]
                 ELSE [status |-> 200, trip |-> saved]

\* EstimateOutcome storing an empty estimate when the gateway fails.
EstimateOutcomeSaveOnFailure(trip, upstream) ==
    LET result == generate_structured(upstream)
    IN  IF result = Raised
        THEN [status |-> 200, trip |-> [trip EXCEPT !.budget_estimates = EmptyDict]]
        ELSE IF Unparseable(result.result) THEN [status |-> 422, trip |-> trip]
        ELSE LET saved == SaveEstimates(trip, result.result)
             IN  IF saved = Raised THEN [status |-> 500, trip |-> trip]
                 ELSE [status |-> 200, trip |-> saved]

\* Lines 169-184: the status the request has reached at db.commit() and the
\* trip row it has written by then.  200 stands for "committed"; every other
\* status is an HTTPException (502, 422) or an escaped AttributeError (500)
\* raised before the commit, which leaves the row as it was.
EstimateOutcome(trip, upstream) ==
    LET result == generate_structured(upstream)
    IN  IF result = Raised THEN [status |-> 502, trip |-> trip]
        ELSE IF Unparseable(result.result) THEN [status |-> 422, trip |-> trip]
        ELSE LET saved == SaveEstimates(trip, result.result)
             IN  IF saved = Raised THEN [status |-> 500, trip |-> trip]
                 ELSE [status |-> 200, trip |-> saved]

\* The request body; model, travelers and travel_style only reach the prompt.
EstimateRequest(duration_days) == [duration_days |-> duration_days]

Digits == <<"0", "1", "2", "3", "4", "5", "6", "7", "8", "9">>

IsDigit(c) == \E i \in DOMAIN Digits : Digits[i] = c

DigitOf(c) == (CHOOSE i \in DOMAIN Digits : Digits[i] = c) - 1

IsLeap(y) == y % 4 = 0 /\ (y % 100 # 0 \/ y % 400 = 0)

DaysInMonth(y, m) ==
    IF m = 2 THEN (IF IsLeap(y) THEN 29 ELSE 28)
    ELSE IF m \in {4, 6, 9, 11} THEN 30 ELSE 31

\* date.fromisoformat(s) for a string of the form YYYY-MM-DD; any other
\* string, or a day that is not in the calendar, raises ValueError.
fromisoformat(s) ==
    IF /\ Len(s) = 10
       /\ s[5] = "-" /\ s[8] = "-"
       /\ \A i \in {1, 2, 3, 4, 6, 7, 9, 10} : IsDigit(s[i])
    THEN LET y == DigitOf(s[1]) * 1000 + DigitOf(s[2]) * 100
                      + DigitOf(s[3]) * 10 + DigitOf(s[4])
             m == DigitOf(s[6]) * 10 + DigitOf(s[7])
             d == DigitOf(s[9]) * 10 + DigitOf(s[10])
         IN  IF y >= 1 /\ m \in 1 .. 12 /\ d >= 1 /\ d <= DaysInMonth(y, m)
             THEN [raised |-> FALSE, year |-> y, month |-> m, day |-> d]
             ELSE Raised
    ELSE Raised

\* The days of the year before month m.
RECURSIVE DaysBeforeMonth(_, _)
DaysBeforeMonth(y, m) ==
    IF m = 1 THEN 0 ELSE DaysBeforeMonth(y, m - 1) + DaysInMonth(y, m - 1)

\* date.toordinal(): (e - s).days is the difference of two of these.
toordinal(date) ==
    LET y == date.year - 1
    IN  y * 365 + y \div 4 - y \div 100 + y \div 400
            + DaysBeforeMonth(date.year, date.month) + date.day

\* Lines 144-153: the duration the prompt states.
Duration(req, trip) ==
    LET given == req.duration_days
        dated ==
            IF ~Truthy(given) /\ Truthy(trip.start_date) /\ Truthy(trip.end_date)
            THEN LET s == fromisoformat(trip.start_date.v)
                     e == fromisoformat(trip.end_date.v)
                 IN  IF s = Raised \/ e = Raised THEN given
                     ELSE IF toordinal(e) - toordinal(s) > 1
                          THEN Num(toordinal(e) - toordinal(s))
                     ELSE Num(1)
            ELSE given
    IN  Or(dated, Num(7))

estimate_costs(trip_id, req, upstream) ==
    /\ Sync
    /\ IF trip_id \notin DOMAIN trips
       THEN /\ last' = Response("estimate_costs", trip_id, 0, req, 404)
            /\ UNCHANGED <<trips, expenses>>
       ELSE LET out == EstimateOutcome(trips[trip_id], upstream)
            IN  /\ trips' = [trips EXCEPT ![trip_id] = out.trip]
                /\ last' = [Response("estimate_costs", trip_id, 0, req,
                                     IF out.status = 200
                                     THEN SummaryStatus(trips', expenses, trip_id)
                                     ELSE out.status)
                               EXCEPT !.duration = Duration(req, trips[trip_id])]
                /\ UNCHANGED expenses

\* ---------------------------------------------------------- expenses CRUD

\* data.category not in EXPENSE_CATEGORIES
InvalidCategory(category) == category \notin Categories

\* ExpenseCurrency without the trip's currency as the first default.
ExpenseCurrencyNoTrip(data, trip) == Or(data.currency, USD)

\* data.currency or trip.budget_currency or "USD"
ExpenseCurrency(data, trip) == Or(Or(data.currency, trip.budget_currency), USD)

\* Expense(trip_id=..., category=..., ...)
Expense(trip_id, data, trip) ==
    [trip_id |-> trip_id,
     category |-> data.category.v,
     description |-> data.description,
     amount |-> data.amount.v,
     currency |-> ExpenseCurrency(data, trip),
     date |-> data.date,
     notes |-> data.notes]

\* datetime.utcnow() at an insert.  Only the order of timestamps matters to
\* the program (order_by), so the clock reads one more than the latest
\* created_at stored.
utcnow(exps) ==
    IF DOMAIN exps = {} THEN 1
    ELSE (CHOOSE m \in {exps[e].created_at : e \in DOMAIN exps} :
             \A e \in DOMAIN exps : exps[e].created_at <= m) + 1

\* db.add(expense); db.commit(): the row as stored, created_at taking its
\* default.
Stored(expense, now) ==
    [f \in DOMAIN expense \cup {"created_at"} |->
        IF f = "created_at" THEN now ELSE expense[f]]

add_expense(trip_id, data) ==
    /\ Sync
    /\ IF trip_id \notin DOMAIN trips
       THEN /\ last' = Response("add_expense", trip_id, 0, data, 404)
            /\ UNCHANGED <<trips, expenses>>
       ELSE IF InvalidCategory(data.category.v)
       THEN /\ last' = Response("add_expense", trip_id, 0, data, 400)
            /\ UNCHANGED <<trips, expenses>>
       ELSE /\ LET id == NextId(DOMAIN expenses)
               IN  /\ expenses' =
                          [e \in DOMAIN expenses \cup {id} |->
                              IF e = id
                              THEN Stored(Expense(trip_id, data, trips[trip_id]),
                                          utcnow(expenses))
                              ELSE expenses[e]]
                   /\ last' = Response("add_expense", trip_id, id, data,
                                       SummaryStatus(trips, expenses', trip_id))
            /\ UNCHANGED trips

\* FindExpense without the trip_id filter.
FindExpenseAnyTrip(exps, trip_id, expense_id) == expense_id \in DOMAIN exps

\* db.query(Expense).filter(Expense.id == expense_id,
\*                          Expense.trip_id == trip_id).first()
FindExpense(exps, trip_id, expense_id) ==
    expense_id \in DOMAIN exps /\ exps[expense_id].trip_id = trip_id

\* ApplyExpenseUpdate without exclude_none: every field of the body is set.
ApplyExpenseUpdateAll(expense, data) ==
    [expense EXCEPT
        !.category = IF data.category # PyNone THEN data.category.v ELSE @,
        !.description = data.description,
        !.amount = IF data.amount # PyNone THEN data.amount.v ELSE @,
        !.currency = data.currency,
        !.date = data.date,
        !.notes = data.notes]

\* for field, value in data.dict(exclude_none=True).items():
\*     setattr(expense, field, value)
ApplyExpenseUpdate(expense, data) ==
    [expense EXCEPT
        !.category = IF data.category # PyNone THEN data.category.v ELSE @,
        !.description = IF data.description # PyNone THEN data.description ELSE @,
        !.amount = IF data.amount # PyNone THEN data.amount.v ELSE @,
        !.currency = IF data.currency # PyNone THEN data.currency ELSE @,
        !.date = IF data.date # PyNone THEN data.date ELSE @,
        !.notes = IF data.notes # PyNone THEN data.notes ELSE @]

update_expense(trip_id, expense_id, data) ==
    /\ Sync
    /\ IF ~FindExpense(expenses, trip_id, expense_id)
       THEN /\ last' = Response("update_expense", trip_id, expense_id, data, 404)
            /\ UNCHANGED <<trips, expenses>>
       ELSE /\ expenses' = [expenses EXCEPT
                               ![expense_id] = ApplyExpenseUpdate(@, data)]
            /\ last' = Response("update_expense", trip_id, expense_id, data,
                                SummaryStatus(trips, expenses', trip_id))
            /\ UNCHANGED trips

delete_expense(trip_id, expense_id) ==
    /\ Sync
    /\ IF ~FindExpense(expenses, trip_id, expense_id)
       THEN /\ last' = Response("delete_expense", trip_id, expense_id, PyNone, 404)
            /\ UNCHANGED <<trips, expenses>>
       ELSE /\ expenses' = [e \in DOMAIN expenses \ {expense_id} |-> expenses[e]]
            /\ last' = Response("delete_expense", trip_id, expense_id, PyNone,
                                SummaryStatus(trips, expenses', trip_id))
            /\ UNCHANGED trips

\* ------------------------------------------------------ request inputs

\* The ids requests name.
TripIdArgs == {1, 2}
ExpenseIdArgs == {1, 2}

EUR == Str(<<"E","U","R">>)

BudgetUpdates ==
    {[budget_total |-> Num(0), budget_currency |-> PyNone],
     [budget_total |-> Num(3000), budget_currency |-> PyNone],
     [budget_total |-> PyNone, budget_currency |-> Str(<<>>)],
     [budget_total |-> PyNone, budget_currency |-> Str(<<"e","u","r">>)],
     [budget_total |-> Num(3000), budget_currency |-> Str(<<"e","u","r">>)],
     [budget_total |-> Num(0), budget_currency |-> Str(<<>>)]}

ExpenseCreate(category, amount, currency) ==
    [category |-> Str(category), description |-> Str(<<"d">>),
     amount |-> Num(amount), currency |-> currency,
     date |-> PyNone, notes |-> PyNone]

ExpenseCreates ==
    {ExpenseCreate("food", 1004, PyNone),
     ExpenseCreate("food", 2503, Str(<<"g","b","p">>)),
     ExpenseCreate("shopping", 1004, Str(<<>>)),
     ExpenseCreate("flights", 1004, PyNone)}

ExpenseUpdate(category, amount, currency) ==
    [category |-> category, description |-> PyNone, amount |-> amount,
     currency |-> currency, date |-> PyNone, notes |-> PyNone]

ExpenseUpdates ==
    {ExpenseUpdate(Str("flights"), PyNone, PyNone),
     ExpenseUpdate(Str("other"), PyNone, PyNone),
     ExpenseUpdate(PyNone, Num(2503), PyNone),
     ExpenseUpdate(PyNone, PyNone, Str(<<"j","p","y">>)),
     [ExpenseUpdate(PyNone, PyNone, PyNone) EXCEPT
         !.description = Str(<<"e">>), !.notes = Str(<<"m">>)],
     [ExpenseUpdate(PyNone, PyNone, PyNone) EXCEPT
         !.date = Str(<<"2","0","2","4","-","0","3","-","0","1">>)]}

\* A body that leaves duration_days out.
DefaultRequest == EstimateRequest(PyNone)

Entry(amount) == Dict([amount |-> Num(amount), notes |-> Str(<<"n">>)])

\* An object of the shape ESTIMATE_SCHEMA asks for.
GoodEstimate ==
    Dict([accommodation |-> Entry(2000), food |-> Entry(1500),
          transport |-> Entry(0), activities |-> Entry(500),
          total |-> Num(4000), currency |-> EUR, summary |-> Str(<<"s">>)])

\* An object without the mandatory keys.
PartialEstimate == Dict([shopping |-> Entry(700), total |-> Num(700)])

\* An object whose food entry is a number, not an {amount, notes} object.
BadEntryEstimate == [GoodEstimate EXCEPT !.v.food = Num(1500)]

Upstreams ==
    {Failure, Text(<<"n","o">>), Json(Str(<<"n","o">>)), Json(PyList),
     Json(PyNone), Json(GoodEstimate), Json(PartialEstimate),
     Json(BadEntryEstimate)}

\* --------------------------------------------------------- specification

\* The store holds no trip yet, or trips as create_trip leaves them.
Init ==
    /\ trips \in {[t \in 1 .. n |-> Trip] : n \in 0 .. 1}
    /\ expenses = <<>>
    /\ last = NoRequest
    /\ served = 0
    /\ pending = {}

Next ==
    \/ create_trip
    \/ \E t \in TripIdArgs : delete_trip(t)
    \/ \E t \in TripIdArgs : get_budget(t)
    \/ \E t \in TripIdArgs, data \in BudgetUpdates : update_budget_settings(t, data)
    \/ \E t \in TripIdArgs, up \in Upstreams : estimate_costs(t, DefaultRequest, up)
    \/ \E t \in TripIdArgs, data \in ExpenseCreates : add_expense(t, data)
    \/ \E t \in TripIdArgs, e \in ExpenseIdArgs, data \in ExpenseUpdates :
           update_expense(t, e, data)
    \/ \E t \in TripIdArgs, e \in ExpenseIdArgs : delete_expense(t, e)

Spec == Init /\ [][Next]_vars

\* ------------------------------------- specification: duration resolution

Feb28 == Str(<<"2","0","2","4","-","0","2","-","2","8">>)
Mar01 == Str(<<"2","0","2","4","-","0","3","-","0","1">>)
Feb29 == Str(<<"2","0","2","3","-","0","2","-","2","9">>)
Soon == Str(<<"s","o","o","n">>)

\* The start_date and end_date create_trip was given.
TripDates ==
    {<<PyNone, PyNone>>, <<Feb28, PyNone>>, <<Str(<<>>), Mar01>>,
     <<Feb28, Mar01>>, <<Mar01, Feb28>>, <<Mar01, Mar01>>,
     <<Feb29, Mar01>>, <<Feb28, Soon>>}

EstimateRequests ==
    {EstimateRequest(PyNone), EstimateRequest(Num(0)),
     EstimateRequest(Num(0 - 3)), EstimateRequest(Num(5))}

\* One trip, as create_trip stores it from a body with these dates.
InitDuration ==
    /\ trips \in {<<[Trip EXCEPT !.start_date = d[1], !.end_date = d[2]]>> :
                      d \in TripDates}
    /\ expenses = <<>>
    /\ last = NoRequest
    /\ served = 0
    /\ pending = {}

NextDuration ==
    \E t \in TripIdArgs, req \in EstimateRequests,
       up \in {Failure, Json(GoodEstimate)} : estimate_costs(t, req, up)

SpecDuration == InitDuration /\ [][NextDuration]_vars

\* ------------------------- specification: estimate requests that suspend

\* estimate_costs up to its await (lines 139-170): the trip is read into the
\* request's session, and the request waits for the gateway holding that
\* object.  Nothing has been assigned to it yet.
estimate_begin(trip_id, req) ==
    /\ Accept
    /\ UNCHANGED <<trips, expenses>>
    /\ IF trip_id \notin DOMAIN trips
       THEN /\ last' = Response("estimate_costs", trip_id, 0, req, 404)
            /\ UNCHANGED pending
       ELSE /\ pending' = pending \cup
                    {[id |-> served', tid |-> trip_id, req |-> req,
                      trip |-> trips[trip_id]]}
            /\ UNCHANGED last

\* db.commit() of a session whose trip object was loaded as `loaded` and now
\* reads `session`: the UPDATE sets the columns whose value has changed, in
\* the row that has the trip's id now.
Commit(row, loaded, session) ==
    [f \in DOMAIN row |-> IF session[f] # loaded[f] THEN session[f] ELSE row[f]]

\* The gateway answers a suspended request, which runs to its response
\* (lines 170-191).  The UPDATE of a row that is gone raises StaleDataError,
\* and so does reading the trip for the summary: 500.
estimate_return(p, upstream) ==
    /\ p \in pending
    /\ pending' = pending \ {p}
    /\ UNCHANGED <<expenses, served>>
    /\ LET out == EstimateOutcome(p.trip, upstream)
           resp == [Response("estimate_costs", p.tid, 0, p.req, out.status)
                       EXCEPT !.duration = Duration(p.req, p.trip)]
       IN  IF out.status # 200
           THEN last' = resp /\ UNCHANGED trips
           ELSE IF p.tid \notin DOMAIN trips
           THEN last' = [resp EXCEPT !.status = 500] /\ UNCHANGED trips
           ELSE /\ trips' = [trips EXCEPT ![p.tid] = Commit(@, p.trip, out.trip)]
                /\ last' = [resp EXCEPT
                               !.status = SummaryStatus(trips', expenses, p.tid)]

\* The request is cancelled at its await: CancelledError leaves the handler
\* (it is no Exception), and get_db closes the session, which is unchanged,
\* without a commit.  No response is sent: status 0.
estimate_cancel(p) ==
    /\ p \in pending
    /\ pending' = pending \ {p}
    /\ last' = Response("estimate_costs", p.tid, 0, p.req, 0)
    /\ UNCHANGED <<trips, expenses, served>>

\* The handlers that read or write what an estimate request reads or writes;
\* the expense handlers touch no column of the trip.
NextAsync ==
    \/ create_trip
    \/ \E t \in TripIdArgs : delete_trip(t)
    \/ \E t \in TripIdArgs : get_budget(t)
    \/ \E t \in TripIdArgs, data \in BudgetUpdates :
           update_budget_settings(t, data)
    \/ \E t \in TripIdArgs : estimate_begin(t, DefaultRequest)
    \/ \E p \in pending, up \in Upstreams : estimate_return(p, up)
    \/ \E p \in pending : estimate_cancel(p)

SpecAsync == Init /\ [][NextAsync]_vars

\* ------------------------------------------------------------ properties

\* The summary get_budget would compute for an existing trip.
Summary(t) == compute_summary(trips[t], expenses, QueryLatestFirst(expenses, t))

\* A value of the shape ESTIMATE_SCHEMA describes.
IsEntry(x) ==
    /\ x.t = "dict"
    /\ {"amount", "notes"} \subseteq DOMAIN x.v
    /\ x.v["amount"].t = "num"
    /\ x.v["notes"].t = "str"

ESTIMATE_SCHEMA(x) ==
    /\ x.t = "dict"
    /\ {"accommodation", "food", "transport", "activities",
        "total", "currency", "summary"} \subseteq DOMAIN x.v
    /\ \A c \in Categories \cap DOMAIN x.v : IsEntry(x.v[c])
    /\ x.v["total"].t = "num"
    /\ x.v["currency"].t = "str"
    /\ x.v["summary"].t = "str"

\* C1: every stored expense has a category of the fixed set (a request with
\* any other category is rejected and stores nothing).
C1_StoredCategoriesValid ==
    \A e \in DOMAIN expenses : expenses[e].category \in Categories

\* C2: an estimate request on an existing trip whose gateway result is not an
\* object of the schema's shape is answered 422 and leaves the trip's
\* budget_estimates, budget_total and budget_currency as they were.
C2_NonConformingIs422 ==
    [][\A t \in TripIdArgs, up \in Upstreams :
          (/\ last'.op = "estimate_costs"
           /\ last'.tid = t
           /\ t \in DOMAIN trips
           /\ up.ok
           /\ ~ESTIMATE_SCHEMA(generate_structured(up).result)
           /\ estimate_costs(t, DefaultRequest, up))
          => (last'.status = 422 /\ trips'[t] = trips[t])]_vars

\* C3: an estimate request answered 404, 502 or 422 leaves every trip and
\* every expense as it was.
C3_FailedEstimateChangesNothing ==
    [][(last'.op = "estimate_costs" /\ last'.status \in {404, 502, 422})
          => (trips' = trips /\ expenses' = expenses)]_vars

\* An estimate request on an existing trip has just been answered 422.
C3_Witness ==
    /\ last.op = "estimate_costs"
    /\ last.status = 422
    /\ last.tid \in DOMAIN trips

\* C4: a successful estimate request on a trip whose budget_total is set
\* (to any value update-settings accepts, 0 included) leaves budget_total as
\* it was; the estimate's total is adopted only when none is set.
C4_EstimateKeepsSetTotal ==
    [][\A t \in DOMAIN trips :
          (/\ last'.op = "estimate_costs"
           /\ last'.tid = t
           /\ last'.status = 200
           /\ trips[t].budget_total # PyNone)
          => trips'[t].budget_total = trips[t].budget_total]_vars

\* The six `spent` values of a summary, added up.
SpentOfCategories(summary) ==
    SumOver([i \in DOMAIN summary.categories |-> summary.categories[i].spent],
            DOMAIN summary.categories)

\* The amounts of a trip's expenses, added up.
AmountsOf(t) ==
    SumOver([e \in ExpensesOf(expenses, t) |-> expenses[e].amount],
            ExpensesOf(expenses, t))

Abs(x) == IF x < 0 THEN 0 - x ELSE x

\* C5: in every summary the six categories' spent values add up to
\* total_spent, which is the sum of the trip's expense amounts, both within
\* the rounding of total_spent to two decimals (half a hundredth).
C5_CategorySpendIsTotal ==
    \A t \in DOMAIN trips :
        Summary(t) # Raised =>
            /\ Abs(SpentOfCategories(Summary(t)) - Summary(t).total_spent) <= 5
            /\ Abs(AmountsOf(t) - Summary(t).total_spent) <= 5

\* The amount the stored estimate gives a category: 0 when there is no
\* estimate, no entry for the category, or no number as the entry's amount.
StoredAmount(t, cat) ==
    LET est == trips[t].budget_estimates
    IN  IF est.t = "dict" /\ cat \in DOMAIN est.v
           /\ est.v[cat].t = "dict" /\ "amount" \in DOMAIN est.v[cat].v
           /\ est.v[cat].v["amount"].t = "num"
        THEN est.v[cat].v["amount"].v
        ELSE 0

\* p tenths of a percent is num / den * 100: exactly, or rounded to one
\* decimal.
IsRatio(p, num, den, exact) ==
    IF exact THEN p * den = num * 1000
    ELSE 2 * Abs(p * den - num * 1000) <= Abs(den)

\* pct is None when den is 0 and is the ratio num / den * 100 otherwise.
RatioOrNull(pct, num, den, exact) ==
    IF den = 0 THEN pct = PyNone
    ELSE pct.t = "num" /\ IsRatio(pct.v, num, den, exact)

\* The null policy of the summary s of trip t; the numerators are the sums
\* as the summary adds them up.
NullPolicy(s, t, exact) ==
    LET total == IF trips[t].budget_total = PyNone THEN 0
                 ELSE trips[t].budget_total.v
    IN  /\ total = 0 => s.remaining = PyNone
        /\ RatioOrNull(s.pct_used,
                       TotalSpent(expenses, QueryLatestFirst(expenses, t)),
                       total, exact)
        /\ \A i \in DOMAIN s.categories :
              LET c == s.categories[i]
              IN  /\ RatioOrNull(c.pct_of_budget, c.spent, total, exact)
                  /\ RatioOrNull(c.pct_of_estimate, c.spent,
                                 StoredAmount(t, c.category), exact)

\* C6 as stated: remaining, pct_used and pct_of_budget are null when
\* budget_total is null or 0, pct_of_estimate is null when the category's
\* estimated amount is 0 or absent, and every other ratio is
\* spent / denominator * 100.
C6_RatiosExact ==
    \A t \in DOMAIN trips : ~SummaryRaises(trips[t]) => NullPolicy(Summary(t), t, TRUE)

\* C6 as amended: the same, with every non-null ratio being
\* spent / denominator * 100 rounded to one decimal place.
C6_RatiosRounded ==
    \A t \in DOMAIN trips : ~SummaryRaises(trips[t]) => NullPolicy(Summary(t), t, FALSE)

\* A trip with a budget and an estimate has spend in a category the estimate
\* prices and a category the estimate prices at 0.
C6_Witness ==
    \E t \in DOMAIN trips :
        /\ Summary(t) # Raised
        /\ Summary(t).pct_used # PyNone
        /\ \E i, j \in DOMAIN Summary(t).categories :
              /\ Summary(t).categories[i].spent > 0
              /\ Summary(t).categories[i].pct_of_estimate # PyNone
              /\ Summary(t).categories[j].estimated = Num(0)
              /\ Summary(t).categories[j].pct_of_estimate = PyNone

\* C7: for every existing trip, computing the summary raises no error and
\* yields the six categories.
C7_SummaryNeverRaises ==
    \A t \in DOMAIN trips :
        /\ Summary(t) # Raised
        /\ {Summary(t).categories[i].category : i \in DOMAIN Summary(t).categories}
               = Categories

\* s is the upper-cased form of r: letter for letter, and no lower-case
\* letter is left.
UpperCased(s, r) ==
    /\ Len(s) = Len(r)
    /\ \A i \in DOMAIN r :
          \/ s[i] = r[i] /\ \A k \in DOMAIN Lower : Lower[k] # r[i]
          \/ \E k \in DOMAIN Lower : Lower[k] = r[i] /\ UpperCase[k] = s[i]

\* C8: update-settings on an existing trip changes only the fields its body
\* supplies: budget_total is the supplied value or stays, budget_currency is
\* the supplied value upper-cased or stays, and budget_estimates, the other
\* trips and all expenses stay.
C8_SettingsPartialUpdate ==
    [][\A t \in TripIdArgs, data \in BudgetUpdates :
          (/\ last'.op = "update_budget_settings"
           /\ last'.tid = t
           /\ last'.fields = Supplied(data)
           /\ t \in DOMAIN trips
           /\ update_budget_settings(t, data)) =>
              /\ expenses' = expenses
              /\ DOMAIN trips' = DOMAIN trips
              /\ \A u \in DOMAIN trips \ {t} : trips'[u] = trips[u]
              /\ trips'[t].budget_estimates = trips[t].budget_estimates
              /\ IF data.budget_total = PyNone
                 THEN trips'[t].budget_total = trips[t].budget_total
                 ELSE trips'[t].budget_total = data.budget_total
              /\ IF data.budget_currency = PyNone
                 THEN trips'[t].budget_currency = trips[t].budget_currency
                 ELSE /\ trips'[t].budget_currency.t = "str"
                      /\ UpperCased(trips'[t].budget_currency.v,
                                    data.budget_currency.v)]_vars

\* Update-settings with only budget_currency supplied has just succeeded on
\* a trip that has a budget_total, and stored "EUR".
C8_Witness ==
    /\ last.op = "update_budget_settings"
    /\ last.status = 200
    /\ last.fields = {"budget_currency"}
    /\ trips[last.tid].budget_currency = EUR
    /\ trips[last.tid].budget_total = Num(3000)

\* The request named an expense that does not exist under the trip it named.
NoSuchExpense(trip_id, expense_id) ==
    \/ expense_id \notin DOMAIN expenses
    \/ expenses[expense_id].trip_id # trip_id

\* C9: update-expense and delete-expense naming an expense that does not
\* exist, or that belongs to another trip, and update-settings, add-expense
\* and estimate naming a trip that does not exist, are answered 404 and leave
\* every trip and every expense as it was.
C9_NotFoundChangesNothing ==
    [][(\/ /\ last'.op \in {"update_expense", "delete_expense"}
           /\ NoSuchExpense(last'.tid, last'.eid)
        \/ /\ last'.op \in {"update_budget_settings", "add_expense",
                            "estimate_costs"}
           /\ last'.tid \notin DOMAIN trips)
          => (last'.status = 404 /\ trips' = trips /\ expenses' = expenses)]_vars

\* Update-expense naming an existing trip and an expense of another trip has
\* just been answered 404.
C9_Witness ==
    /\ last.op = "update_expense"
    /\ last.status = 404
    /\ last.tid \in DOMAIN trips
    /\ last.eid \in DOMAIN expenses
    /\ expenses[last.eid].trip_id # last.tid

\* A currency is given when it is present and not empty.
Given(currency) == currency # PyNone /\ currency.v # <<>>

\* C10: add-expense on an existing trip with a category outside the fixed set
\* is answered 400 and stores nothing; with a valid category it stores one
\* new expense under the trip, with the request's currency if given, else the
\* trip's budget_currency, else "USD", and changes no other expense and no
\* trip.
C10_AddExpense ==
    [][\A t \in TripIdArgs, data \in ExpenseCreates :
          (/\ last'.op = "add_expense"
           /\ last'.tid = t
           /\ last'.fields = Supplied(data)
           /\ t \in DOMAIN trips
           /\ add_expense(t, data)) =>
              /\ trips' = trips
              /\ IF data.category.v \notin Categories
                 THEN last'.status = 400 /\ expenses' = expenses
                 ELSE \E id \in DOMAIN expenses' \ DOMAIN expenses :
                         /\ DOMAIN expenses' = DOMAIN expenses \cup {id}
                         /\ \A e \in DOMAIN expenses : expenses'[e] = expenses[e]
                         /\ expenses'[id].trip_id = t
                         /\ expenses'[id].category = data.category.v
                         /\ expenses'[id].currency =
                               IF Given(data.currency) THEN data.currency
                               ELSE IF Given(trips[t].budget_currency)
                                    THEN trips[t].budget_currency
                               ELSE USD]_vars

\* Add-expense without a currency has just stored an expense in the
\* currency of its trip, which update-settings had set to "EUR".
C10_Witness ==
    /\ last.op = "add_expense"
    /\ last.status = 200
    /\ "currency" \notin last.fields
    /\ trips[last.tid].budget_currency = EUR
    /\ expenses[last.eid].currency = EUR

\* The handlers of the budget router.
BudgetOps ==
    {"get_budget", "update_budget_settings", "estimate_costs", "add_expense",
     "update_expense", "delete_expense"}

\* Every stored expense belongs to a stored trip.
NoOrphans(trs, exps) == \A e \in DOMAIN exps : exps[e].trip_id \in DOMAIN trs

\* C11: deleting a trip removes it and every expense carrying its id and
\* leaves the expenses of the other trips as they were; no expense is ever
\* left without its trip; and every budget request naming an id that no
\* stored trip has is answered 404 and changes nothing.
C11_DeletedTripIsGone ==
    [][/\ (last'.op = "delete_trip" /\ last'.status = 200) =>
             /\ last'.tid \notin DOMAIN trips'
             /\ \A e \in DOMAIN expenses' : expenses'[e].trip_id # last'.tid
             /\ DOMAIN expenses' \subseteq DOMAIN expenses
             /\ \A e \in DOMAIN expenses :
                   expenses[e].trip_id # last'.tid =>
                       e \in DOMAIN expenses' /\ expenses'[e] = expenses[e]
       /\ NoOrphans(trips, expenses) /\ NoOrphans(trips', expenses')
       /\ (last'.op \in BudgetOps /\ last'.tid \notin DOMAIN trips) =>
             (last'.status = 404 /\ trips' = trips /\ expenses' = expenses)]_vars

\* A trip has just been deleted: the expense it had is gone with it, and the
\* expense of a trip created later is still stored.
C11_Witness ==
    /\ last.op = "delete_trip"
    /\ last.status = 200
    /\ last.tid \notin DOMAIN trips
    /\ \E e \in DOMAIN expenses :
          /\ expenses[e].trip_id > last.tid
          /\ \E d \in 1 .. e - 1 : d \notin DOMAIN expenses

\* The value a body supplies for a field, as the store holds it.
SuppliedValue(data, f) ==
    IF f \in {"category", "amount"} THEN data[f].v ELSE data[f]

\* C12: update-expense answered other than 404 overwrites the supplied fields
\* of the target expense with the supplied values, keeps every other field of
\* it (trip_id and created_at among them) and its id, and changes no other
\* expense and no trip.
C12_UpdateExpenseFrame ==
    [][\A t \in TripIdArgs, e \in ExpenseIdArgs, data \in ExpenseUpdates :
          (/\ last'.op = "update_expense"
           /\ last'.tid = t
           /\ last'.eid = e
           /\ last'.fields = Supplied(data)
           /\ last'.status # 404
           /\ update_expense(t, e, data)) =>
              /\ trips' = trips
              /\ DOMAIN expenses' = DOMAIN expenses
              /\ \A o \in DOMAIN expenses \ {e} : expenses'[o] = expenses[o]
              /\ DOMAIN expenses'[e] = DOMAIN expenses[e]
              /\ \A f \in DOMAIN expenses[e] :
                    expenses'[e][f] =
                        IF f \in Supplied(data) THEN SuppliedValue(data, f)
                        ELSE expenses[e][f]]_vars

\* Update-expense supplying only description and notes has just succeeded on
\* the older of two stored expenses.
C12_Witness ==
    /\ last.op = "update_expense"
    /\ last.status = 200
    /\ last.fields = {"description", "notes"}
    /\ expenses[last.eid].description = Str(<<"e">>)
    /\ expenses[last.eid].currency # PyNone
    /\ \E o \in DOMAIN expenses :
          expenses[o].created_at > expenses[last.eid].created_at

\* The `estimates` field of the summary of a trip row.
SummaryEstimates(trip) == Or(trip.budget_estimates, EmptyDict)

\* C13: a successful estimate request stores exactly the gateway's result as
\* budget_estimates, and the summary's `estimates` is that result; every
\* other request leaves the stored budget_estimates and the summary's
\* `estimates` of every trip as they were; and a trip just created has the
\* empty mapping as `estimates`.
C13_EstimatesAreLastResult ==
    [][/\ \A t \in TripIdArgs, up \in Upstreams :
             (/\ last'.op = "estimate_costs"
              /\ last'.tid = t
              /\ last'.status = 200
              /\ t \in DOMAIN trips
              /\ estimate_costs(t, DefaultRequest, up)) =>
                 /\ trips'[t].budget_estimates = generate_structured(up).result
                 /\ SummaryEstimates(trips'[t]) = generate_structured(up).result
       /\ \A t \in DOMAIN trips \cap DOMAIN trips' :
             (last'.op # "estimate_costs" \/ last'.tid # t \/ last'.status # 200) =>
                 /\ trips'[t].budget_estimates = trips[t].budget_estimates
                 /\ SummaryEstimates(trips'[t]) = SummaryEstimates(trips[t])
       /\ \A t \in DOMAIN trips' \ DOMAIN trips :
             SummaryEstimates(trips'[t]) = EmptyDict]_vars

\* The duration as the claim resolves it.
ClaimedDuration(req, trip) ==
    LET d == req.duration_days
        s == IF trip.start_date # PyNone /\ trip.start_date.v # <<>>
             THEN fromisoformat(trip.start_date.v) ELSE Raised
        e == IF trip.end_date # PyNone /\ trip.end_date.v # <<>>
             THEN fromisoformat(trip.end_date.v) ELSE Raised
    IN  IF d # PyNone /\ d.v > 0 THEN d.v
        ELSE IF s # Raised /\ e # Raised
        THEN (IF toordinal(e) - toordinal(s) > 1
              THEN toordinal(e) - toordinal(s) ELSE 1)
        ELSE 7

\* C14: the duration an estimate request on an existing trip puts in its
\* prompt is the supplied duration_days if present and positive, else
\* max(1, end_date - start_date) if both stored dates parse, else 7; it is
\* at least 1, and no error comes of a date that does not parse.
C14_DurationResolved ==
    [][\A t \in TripIdArgs, req \in EstimateRequests, up \in Upstreams :
          (/\ last'.op = "estimate_costs"
           /\ last'.tid = t
           /\ last'.fields = Supplied(req)
           /\ t \in DOMAIN trips
           /\ estimate_costs(t, req, up)) =>
              /\ last'.duration = Num(ClaimedDuration(req, trips[t]))
              /\ last'.duration.v >= 1]_vars

\* The handlers that change the store and return the recomputed summary.
Mutators ==
    {"update_budget_settings", "estimate_costs", "add_expense",
     "update_expense", "delete_expense"}

\* C15: the summary a successful mutator has just returned is the summary
\* get-budget computes from the store the mutator left.
C15_ReturnedSummaryIsGetSummary ==
    (last.op \in Mutators /\ last.status = 200) =>
        ReturnedSummary(trips, expenses, last.tid) = Summary(last.tid)

\* C16: an estimate request writes the trip only in the step in which the
\* gateway has answered it with a result: taking the request up writes
\* nothing, a request cancelled at its await writes nothing, a request whose
\* gateway call fails writes nothing, and budget_estimates changes in no
\* other step.
C16_WritesOnlyAfterGatewayResult ==
    [][/\ (pending' # pending /\ pending \subseteq pending') =>
             (trips' = trips /\ expenses' = expenses)
       /\ \A p \in pending :
             estimate_cancel(p) => (trips' = trips /\ expenses' = expenses)
       /\ \A p \in pending \ pending', up \in Upstreams :
             (~up.ok /\ estimate_return(p, up)) =>
                 (trips' = trips /\ expenses' = expenses)
       /\ \A t \in DOMAIN trips \cap DOMAIN trips' :
             trips'[t].budget_estimates # trips[t].budget_estimates =>
                 \E p \in pending \ pending', up \in Upstreams :
                     p.tid = t /\ up.ok /\ estimate_return(p, up)]_vars

\* A request has just been cancelled at its await on a trip that another
\* estimate request is still waiting on; the trip has no estimate.
C16_Witness ==
    /\ last.op = "estimate_costs"
    /\ last.status = 0
    /\ last.tid \in DOMAIN trips
    /\ trips[last.tid].budget_estimates = PyNone
    /\ \E p \in pending : p.tid = last.tid

\* C17: when update-settings has just committed a budget_total for a trip and
\* the gateway then answers an estimate request that read the trip while it
\* had no budget_total, the trip keeps the budget_total update-settings gave
\* it.  Stated for a budget_total other than 0, which C4 is about.
C17_EstimateKeepsConcurrentTotal ==
    [][\A p \in pending \ pending' :
          (/\ p.trip.budget_total = PyNone
           /\ last.op = "update_budget_settings"
           /\ last.tid = p.tid
           /\ last.status = 200
           /\ "budget_total" \in last.fields
           /\ p.tid \in DOMAIN trips /\ p.tid \in DOMAIN trips'
           /\ Truthy(trips[p.tid].budget_total)) =>
              trips'[p.tid].budget_total = trips[p.tid].budget_total]_vars

====
